---- MODULE Spec2Model ----
(***************************************************************************)
(* Healthcare appointment backend (backend/controllers.js, models.js,      *)
(* routes.js).  Every request handler is an async function: the code       *)
(* between two awaits runs without interruption (one JavaScript thread),   *)
(* each awaited database call is one atomic document operation, and other  *)
(* handlers may run between any two awaits.  One action below is one such  *)
(* segment: a database call together with the synchronous code that        *)
(* follows it up to the next await or the response.                        *)
(***************************************************************************)
EXTENDS Naturals, Integers, Sequences, FiniteSets, TLC

\* ------------------------------------------------------------------ bounds
MaxReq   == 2   \* handlers that can be in flight at the same time
MaxAppts == 2   \* rows the Appointment collection may reach
MaxAvail == 2   \* entries one profile's availability array may reach
MaxSlots == 2   \* length of a slots array sent by a doctor
MaxCalls == 5   \* showToast calls of one browser session

\* ------------------------------------------------------------ value sets
PatientIds  == {"p1", "p2"}
DoctorUsers == {"u1", "u2"}
ProfileIds  == {"d1", "d2"}
UnknownId   == "d0"            \* a well-formed id no DoctorProfile has
Dates       == {"D1", "D2"}
Times       == {"t1", "t2"}
Missing     == ""              \* a body field that is absent (falsy)
Reqs        == 1..MaxReq

\* The slots arrays a doctor sends.  AllSlotLists: every array of at most
\* MaxSlots times.  DaySlotLists: the empty array and the arrays that list
\* the day's times in order from the first one.
RECURSIVE SeqsUpTo(_, _)
SeqsUpTo(S, n) ==
    IF n = 0 THEN {<<>>}
    ELSE LET shorter == SeqsUpTo(S, n - 1)
         IN  shorter \cup {Append(s, x) : s \in {t \in shorter : Len(t) = n - 1}, x \in S}

AllSlotLists == SeqsUpTo(Times, MaxSlots)

DaySlotLists == {s \in AllSlotLists :
                    \A i \in DOMAIN s : s[i] = IF i = 1 THEN "t1" ELSE "t2"}

VARIABLES users, profiles, appointments, req,
          toast, timers, calls, loading, auth

vars == <<users, profiles, appointments, req, toast, timers, calls, loading, auth>>

\* The state of the browser client (App.jsx): the toast on display, the
\* auto-hide timers pending (each named by the showToast call that set
\* it, oldest first), the number of showToast calls so far, whether an
\* AuthForm submit is waiting for its response, whether a token is held.
client == <<toast, timers, calls, loading, auth>>

\* setToast({ message: '', type: '' }): nothing on display (call 0: no
\* showToast call put it there).
NoToast == [message |-> "", type |-> "", call |-> 0]

\* useState({ message: '', type: '' }), no timer, no submit under way; no
\* token in localStorage.
InitClient ==
    /\ toast = NoToast
    /\ timers = <<>>
    /\ calls = 0
    /\ loading = FALSE
    /\ auth = FALSE

\* --------------------------------------------------------------- schemas
\* bcrypt.hash / bcrypt.compare: the stored password is a hash of the
\* plain one (the salt is left out), and compare hashes and compares.
Hash(password) == <<"bcrypt", password>>

Compare(password, hashed) == Hash(password) = hashed

\* userSchema: a created account.
NewUser(email, password, role) ==
    [email |-> email, password |-> Hash(password), role |-> role]

\* protect + restrictTo(roles) on a route: the handler runs only for a
\* caller whose account has one of the roles.
RestrictTo(u, roles) == u \in DOMAIN users /\ users[u].role \in roles

\* appointmentSchema: a created row takes the schema default for status.
NewAppointmentCancelled(p, d, date, time) ==
    [patientId |-> p, doctorId |-> d, appointmentDate |-> date,
     appointmentTime |-> time, status |-> "cancelled"]

NewAppointment(p, d, date, time) ==
    [patientId |-> p, doctorId |-> d, appointmentDate |-> date,
     appointmentTime |-> time, status |-> "booked"]

\* ------------------------------------------------------- request records
Idle ==
    [op |-> "none", pc |-> "idle", user |-> Missing, doctorId |-> Missing,
     date |-> Missing, time |-> Missing, apptId |-> 0, slots |-> <<>>,
     idx |-> 0, code |-> 0, msg |-> "", conc |-> {},
     email |-> Missing, password |-> Missing, role |-> Missing,
     specialization |-> Missing, list |-> <<>>]

InFlight(r) == req[r].pc \notin {"idle", "done"}

\* res.status(code).json({message}) : the handler has answered and its
\* locals are gone; the slot keeps the operation and the answer.
Respond(rec, code, msg) ==
    [Idle EXCEPT !.op = rec.op, !.pc = "done", !.code = code, !.msg = msg]

\* A new request enters on handler slot r.  (conc of an answered booking
\* names the slots whose request was in flight when it answered; a slot
\* that takes a new request leaves those sets.)
Enter(r, rec) ==
    /\ ~InFlight(r)
    /\ req' = [o \in Reqs |->
                 IF o = r THEN rec ELSE [req[o] EXCEPT !.conc = @ \ {r}]]

\* The database once two patients and two doctors have registered and
\* doctor u2 has published one slot; no appointment exists yet.
Init ==
    /\ users = [u \in PatientIds \cup DoctorUsers |->
                  NewUser(u, "pw", IF u \in PatientIds THEN "patient" ELSE "doctor")]
    /\ profiles = [d \in ProfileIds |->
                     IF d = "d1"
                     THEN [userId |-> "u1", availability |-> <<>>]
                     ELSE [userId |-> "u2",
                           availability |-> <<[date |-> "D1", slots |-> <<"t1">>]>>]]
    /\ appointments = <<>>
    /\ req = [r \in Reqs |-> Idle]
    /\ InitClient

\* ------------------------------------------------------------- queries
\* availability.findIndex(av => av.date === date): 0 stands for -1, and
\* index i of the model is index i-1 of the JavaScript array.
FindIndex(av, date) ==
    IF \E i \in DOMAIN av : av[i].date = date
    THEN CHOOSE i \in DOMAIN av :
            /\ av[i].date = date
            /\ \A j \in DOMAIN av : av[j].date = date => i <= j
    ELSE 0

\* slots.includes(time)
Includes(slots, time) == \E k \in DOMAIN slots : slots[k] = time

\* The slot test of bookAppointment:
\* !(!availabilityEntry || !availabilityEntry.slots.includes(time))
SlotOfferedNoEntryCheck(av, date, time) ==
    FindIndex(av, date) = 0 \/ Includes(av[FindIndex(av, date)].slots, time)

SlotOffered(av, date, time) ==
    FindIndex(av, date) # 0 /\ Includes(av[FindIndex(av, date)].slots, time)

\* The slot list a date stands for: the entry find() returns, none = empty.
GetAvailableSlots(av, date) ==
    IF FindIndex(av, date) = 0 THEN <<>> ELSE av[FindIndex(av, date)].slots

\* DoctorProfile.findOne({ userId }): the profile ids that match.
ProfilesOfOtherUsers(u) == {d \in DOMAIN profiles : profiles[d].userId # u}

ProfilesOfUser(u) == {d \in DOMAIN profiles : profiles[d].userId = u}

\* Appointment.findOne({ patientId, appointmentDate, appointmentTime, status: 'booked' })
PatientBooked(apps, p, date, time) ==
    \E i \in DOMAIN apps :
        /\ apps[i].patientId = p
        /\ apps[i].appointmentDate = date
        /\ apps[i].appointmentTime = time
        /\ apps[i].status = "booked"

\* Appointment.findOne({ doctorId, appointmentDate, appointmentTime, status: 'booked' })
SlotBookedAnyStatus(apps, d, date, time) ==
    \E i \in DOMAIN apps :
        /\ apps[i].doctorId = d
        /\ apps[i].appointmentDate = date
        /\ apps[i].appointmentTime = time

SlotBookedNotChecked(apps, d, date, time) == FALSE

SlotBooked(apps, d, date, time) ==
    \E i \in DOMAIN apps :
        /\ apps[i].doctorId = d
        /\ apps[i].appointmentDate = date
        /\ apps[i].appointmentTime = time
        /\ apps[i].status = "booked"

\* ------------------------------------------------- updateAvailability
\* Entries an in-flight updateAvailability of doctor u may still push.
PendingPushes(u) ==
    Cardinality({r \in Reqs : InFlight(r) /\ req[r].op = "update" /\ req[r].user = u})

\* PUT /doctors/availability (restrictTo doctor): body check, then the
\* profile query is issued.
StartUpdate(r, callers, dates, lists) ==
    \E u \in {x \in callers : RestrictTo(x, {"doctor"})},
       date \in dates \cup {Missing}, slots \in lists :
        /\ \A d \in ProfilesOfUser(u) :
              \/ FindIndex(profiles[d].availability, date) # 0
              \/ Len(profiles[d].availability) + PendingPushes(u) < MaxAvail
        /\ LET rec == [Idle EXCEPT !.op = "update", !.user = u, !.date = date,
                                   !.slots = slots]
           IN  Enter(r, IF date = Missing \/ slots = <<>>
                        THEN Respond(rec, 400, "Date and slots are required.")
                        ELSE [rec EXCEPT !.pc = "findProfile"])
        /\ UNCHANGED <<users, profiles, appointments, client>>

\* DoctorProfile.findOne resolves; findIndex and the change of the loaded
\* document follow; save() is issued.
UpdateFindProfile(r) ==
    /\ req[r].op = "update" /\ req[r].pc = "findProfile"
    /\ IF ProfilesOfUser(req[r].user) = {}
       THEN req' = [req EXCEPT ![r] = Respond(@, 404, "Doctor profile not found.")]
       ELSE LET d == CHOOSE x \in ProfilesOfUser(req[r].user) : TRUE
            IN  req' = [req EXCEPT ![r] =
                          [@ EXCEPT !.pc = "save", !.doctorId = d,
                                    !.idx = FindIndex(profiles[d].availability, req[r].date)]]
    /\ UNCHANGED <<users, profiles, appointments, client>>

\* What doctorProfile.save() writes: the modified paths only.  A changed
\* element is $set at its position; a pushed element is a $push.
SavedAvailability(av, idx, date, slots) ==
    IF idx # 0 THEN [av EXCEPT ![idx].slots = slots]
    ELSE Append(av, [date |-> date, slots |-> slots])

UpdateSave(r) ==
    /\ req[r].op = "update" /\ req[r].pc = "save"
    /\ profiles' = [profiles EXCEPT ![req[r].doctorId].availability =
                      SavedAvailability(@, req[r].idx, req[r].date, req[r].slots)]
    /\ req' = [req EXCEPT ![r] = Respond(@, 200, "Availability updated successfully.")]
    /\ UNCHANGED <<users, appointments, client>>

\* ---------------------------------------------------- bookAppointment
PendingCreates ==
    Cardinality({r \in Reqs : InFlight(r) /\ req[r].op = "book"})

\* POST /appointments (restrictTo patient): body check, then findById of
\* the doctor profile is issued.
StartBook(r, cap) ==
    \E p \in {x \in DOMAIN users : RestrictTo(x, {"patient"})},
       d \in ProfileIds \cup {UnknownId},
       date \in Dates, time \in Times \cup {Missing} :
        /\ Len(appointments) + PendingCreates < cap
        /\ LET rec == [Idle EXCEPT !.op = "book", !.user = p, !.doctorId = d,
                                   !.date = date, !.time = time]
           IN  Enter(r, IF d = Missing \/ date = Missing \/ time = Missing
                        THEN Respond(rec, 400, "All appointment details are required.")
                        ELSE [rec EXCEPT !.pc = "findDoctor"])
        /\ UNCHANGED <<users, profiles, appointments, client>>

\* DoctorProfile.findById resolves; the slot test runs on the loaded
\* document; the patient query is issued.
BookFindDoctorNoLookup(r) ==
    /\ req[r].op = "book" /\ req[r].pc = "findDoctor"
    /\ req' = [req EXCEPT ![r] =
                 IF /\ req[r].doctorId \in DOMAIN profiles
                    /\ ~SlotOffered(profiles[req[r].doctorId].availability,
                                    req[r].date, req[r].time)
                 THEN Respond(@, 400, "The selected slot is not available.")
                 ELSE [@ EXCEPT !.pc = "findPatientDup"]]
    /\ UNCHANGED <<users, profiles, appointments, client>>

BookFindDoctor(r) ==
    /\ req[r].op = "book" /\ req[r].pc = "findDoctor"
    /\ req' = [req EXCEPT ![r] =
                 IF req[r].doctorId \notin DOMAIN profiles
                 THEN Respond(@, 404, "Doctor not found.")
                 ELSE IF ~SlotOffered(profiles[req[r].doctorId].availability,
                                      req[r].date, req[r].time)
                 THEN Respond(@, 400, "The selected slot is not available.")
                 ELSE [@ EXCEPT !.pc = "findPatientDup"]]
    /\ UNCHANGED <<users, profiles, appointments, client>>

\* The patient query resolves; the slot query is issued.
BookFindPatientDup(r) ==
    /\ req[r].op = "book" /\ req[r].pc = "findPatientDup"
    /\ req' = [req EXCEPT ![r] =
                 IF PatientBooked(appointments, req[r].user, req[r].date, req[r].time)
                 THEN Respond(@, 400, "You already have an appointment at this time.")
                 ELSE [@ EXCEPT !.pc = "findSlot"]]
    /\ UNCHANGED <<users, profiles, appointments, client>>

\* The slot query resolves; Appointment.create is issued.
BookFindSlot(r) ==
    /\ req[r].op = "book" /\ req[r].pc = "findSlot"
    /\ req' = [req EXCEPT ![r] =
                 IF SlotBooked(appointments, req[r].doctorId, req[r].date, req[r].time)
                 THEN Respond(@, 400, "This slot is already taken by another patient.")
                 ELSE [@ EXCEPT !.pc = "create"]]
    /\ UNCHANGED <<users, profiles, appointments, client>>

\* Appointment.create inserts the row; 201 follows, with the created row
\* (apptId is its _id).
BookCreateConsumesSlot(r) ==
    /\ req[r].op = "book" /\ req[r].pc = "create"
    /\ appointments' = Append(appointments,
                              NewAppointment(req[r].user, req[r].doctorId,
                                             req[r].date, req[r].time))
    /\ req' = [req EXCEPT ![r] =
                 [Respond(@, 201, "Appointment booked successfully.")
                    EXCEPT !.apptId = Len(appointments) + 1,
                           !.conc = {o \in Reqs \ {r} : InFlight(o)}]]
    /\ profiles' = [profiles EXCEPT ![req[r].doctorId].availability =
                      [i \in DOMAIN @ |->
                         IF @[i].date = req[r].date
                         THEN [@[i] EXCEPT !.slots =
                                 SelectSeq(@, LAMBDA t : t # req[r].time)]
                         ELSE @[i]]]
    /\ UNCHANGED <<users, client>>

BookCreate(r) ==
    /\ req[r].op = "book" /\ req[r].pc = "create"
    /\ appointments' = Append(appointments,
                              NewAppointment(req[r].user, req[r].doctorId,
                                             req[r].date, req[r].time))
    /\ req' = [req EXCEPT ![r] =
                 [Respond(@, 201, "Appointment booked successfully.")
                    EXCEPT !.apptId = Len(appointments) + 1,
                           !.conc = {o \in Reqs \ {r} : InFlight(o)}]]
    /\ UNCHANGED <<users, profiles, client>>

\* -------------------------------------------------- cancelAppointment
\* PUT /appointments/:id/cancel (restrictTo patient): findById is issued.
StartCancel(r) ==
    \E p \in {x \in DOMAIN users : RestrictTo(x, {"patient"})}, id \in 1..MaxAppts :
        /\ Enter(r, [Idle EXCEPT !.op = "cancel", !.pc = "findById",
                                 !.user = p, !.apptId = id])
        /\ UNCHANGED <<users, profiles, appointments, client>>

\* The answer cancelAppointment gives once the row is loaded (0: none,
\* the handler goes on to save).
CancelCheckNoOwner(app, requester) ==
    IF app.status = "cancelled" THEN 400 ELSE 0

CancelCheck(app, requester) ==
    IF app.patientId # requester THEN 403
    ELSE IF app.status = "cancelled" THEN 400
    ELSE 0

CancelMessage(code) ==
    IF code = 403 THEN "You can only cancel your own appointments."
    ELSE "Appointment is already cancelled."

\* Appointment.findById resolves; the owner and status tests run on the
\* loaded document; its status is set and save() is issued.  (An answered
\* cancel keeps the id of the request path.)
CancelFindByIdSavesFirst(r) ==
    /\ req[r].op = "cancel" /\ req[r].pc = "findById"
    /\ req' = [req EXCEPT ![r] =
                 IF req[r].apptId \notin DOMAIN appointments
                 THEN Respond(@, 404, "Appointment not found.")
                 ELSE IF CancelCheck(appointments[req[r].apptId], req[r].user) # 0
                 THEN [Respond(@, CancelCheck(appointments[req[r].apptId], req[r].user),
                               CancelMessage(CancelCheck(appointments[req[r].apptId],
                                                         req[r].user)))
                         EXCEPT !.apptId = req[r].apptId]
                 ELSE [@ EXCEPT !.pc = "save"]]
    /\ appointments' = IF req[r].apptId \in DOMAIN appointments
                       THEN [appointments EXCEPT ![req[r].apptId].status = "cancelled"]
                       ELSE appointments
    /\ UNCHANGED <<users, profiles, client>>

CancelFindById(r) ==
    /\ req[r].op = "cancel" /\ req[r].pc = "findById"
    /\ req' = [req EXCEPT ![r] =
                 IF req[r].apptId \notin DOMAIN appointments
                 THEN Respond(@, 404, "Appointment not found.")
                 ELSE IF CancelCheck(appointments[req[r].apptId], req[r].user) # 0
                 THEN [Respond(@, CancelCheck(appointments[req[r].apptId], req[r].user),
                               CancelMessage(CancelCheck(appointments[req[r].apptId],
                                                         req[r].user)))
                         EXCEPT !.apptId = req[r].apptId]
                 ELSE [@ EXCEPT !.pc = "save"]]
    /\ UNCHANGED <<users, profiles, appointments, client>>

\* What appointment.save() writes: the modified path, status.
SavedAppointmentsDelete(apps, id) ==
    [i \in 1..(Len(apps) - 1) |-> IF i < id THEN apps[i] ELSE apps[i + 1]]

SavedAppointments(apps, id) == [apps EXCEPT ![id].status = "cancelled"]

CancelSave(r) ==
    /\ req[r].op = "cancel" /\ req[r].pc = "save"
    /\ appointments' = SavedAppointments(appointments, req[r].apptId)
    /\ req' = [req EXCEPT ![r] =
                 [Respond(@, 200, "Appointment cancelled successfully.")
                    EXCEPT !.apptId = req[r].apptId]]
    /\ UNCHANGED <<users, profiles, client>>

\* ------------------------------------------------------- registerUser
\* The e-mail addresses of new registrations, and the _ids new accounts
\* get.  A new account takes the first _id no account has: the only
\* account ever deleted is deleted by the handler that made it, and
\* nothing refers to its _id afterwards.
Emails == {"e1", "e2"}

NewUserIds == <<"n1", "n2", "n3">>

FreshUserId ==
    NewUserIds[CHOOSE i \in DOMAIN NewUserIds :
                  /\ NewUserIds[i] \notin DOMAIN users
                  /\ \A j \in DOMAIN NewUserIds :
                        NewUserIds[j] \notin DOMAIN users => i <= j]

\* The _id of the profile made for an account.
ProfileIdFor(u) ==
    IF u = "n1" THEN "f1" ELSE IF u = "n2" THEN "f2" ELSE "f3"

\* role.toLowerCase()
ToLowerCase(role) ==
    IF role = "Doctor" THEN "doctor" ELSE IF role = "Patient" THEN "patient" ELSE role

\* A rejected promise leaves a handler that has no try/catch: the handler
\* ends and has sent no response.  What the client gets is up to the
\* Express release installed, which the repository does not pin: none
\* (code 0: Express 4 ignores the promise) or the default error page
\* (code 500: Express 5 forwards the rejection to its error handler).
EscapeOutcomes == {0, 500}

Escape(rec, code) ==
    [Idle EXCEPT !.op = rec.op, !.pc = "done", !.code = code,
                 !.msg = "unhandled rejection"]

\* User.findOne({ email })
UserWithEmail(email) == {u \in DOMAIN users : users[u].email = email}

\* userSchema: email is unique (the index rejects a second account).
CanInsertUserNoIndex(email) == TRUE

CanInsertUser(email) == UserWithEmail(email) = {}

\* POST /auth/register: body check, then User.findOne is issued.
StartRegister(r, emails) ==
    \E name \in {"name", Missing}, email \in emails \cup {Missing},
       password \in {"pw", Missing}, role \in {"patient", "doctor", "Doctor", Missing},
       specialization \in {"spec", Missing} :
        /\ LET rec == [Idle EXCEPT !.op = "register", !.email = email,
                                   !.password = password, !.role = role,
                                   !.specialization = specialization]
           IN  Enter(r, IF name = Missing \/ email = Missing \/ password = Missing
                           \/ role = Missing
                        THEN Respond(rec, 400, "Please include all required fields.")
                        ELSE [rec EXCEPT !.pc = "findOne"])
        /\ UNCHANGED <<users, profiles, appointments, client>>

\* User.findOne resolves; the password is hashed; User.create is issued.
\* (An answered registration keeps the address it was for.)
RegisterFindOne(r) ==
    /\ req[r].op = "register" /\ req[r].pc = "findOne"
    /\ req' = [req EXCEPT ![r] =
                 IF UserWithEmail(req[r].email) # {}
                 THEN [Respond(@, 400, "User already exists.")
                         EXCEPT !.email = req[r].email]
                 ELSE [@ EXCEPT !.pc = "create"]]
    /\ UNCHANGED <<users, profiles, appointments, client>>

\* User.create resolves (or rejects on the unique index); a doctor without
\* specialization goes on to User.deleteOne, a doctor with one to
\* DoctorProfile.create, a patient is answered 201.
RegisterCreate(r) ==
    /\ req[r].op = "register" /\ req[r].pc = "create"
    /\ \E i \in DOMAIN NewUserIds : NewUserIds[i] \notin DOMAIN users
    /\ IF ~CanInsertUser(req[r].email)
       THEN /\ \E c \in EscapeOutcomes :
                  req' = [req EXCEPT ![r] =
                            [Escape(@, c) EXCEPT !.email = req[r].email]]
            /\ users' = users
       ELSE LET id   == FreshUserId
                role == ToLowerCase(req[r].role)
            IN  /\ users' = [u \in DOMAIN users \cup {id} |->
                               IF u = id
                               THEN NewUser(req[r].email, req[r].password, role)
                               ELSE users[u]]
                /\ req' = [req EXCEPT ![r] =
                             IF role # "doctor"
                             THEN [Respond(@, 201, "registered")
                                     EXCEPT !.email = req[r].email]
                             ELSE IF req[r].specialization = Missing
                             THEN [@ EXCEPT !.pc = "deleteOne", !.user = id]
                             ELSE [@ EXCEPT !.pc = "createProfile", !.user = id]]
    /\ UNCHANGED <<profiles, appointments, client>>

\* User.deleteOne({ _id: user._id }) resolves; 400 follows.
UsersAfterDeleteKept(u) == users

UsersAfterDelete(u) == [x \in DOMAIN users \ {u} |-> users[x]]

RegisterDeleteOne(r) ==
    /\ req[r].op = "register" /\ req[r].pc = "deleteOne"
    /\ users' = UsersAfterDelete(req[r].user)
    /\ req' = [req EXCEPT ![r] =
                 [Respond(@, 400, "Specialization is required for doctors.")
                    EXCEPT !.email = req[r].email]]
    /\ UNCHANGED <<profiles, appointments, client>>

\* DoctorProfile.create resolves; 201 follows.
RegisterCreateProfile(r) ==
    /\ req[r].op = "register" /\ req[r].pc = "createProfile"
    /\ profiles' = [d \in DOMAIN profiles \cup {ProfileIdFor(req[r].user)} |->
                      IF d = ProfileIdFor(req[r].user)
                      THEN [userId |-> req[r].user, availability |-> <<>>]
                      ELSE profiles[d]]
    /\ req' = [req EXCEPT ![r] =
                 [Respond(@, 201, "registered") EXCEPT !.email = req[r].email]]
    /\ UNCHANGED <<users, appointments, client>>

\* ---------------------------------------------- getPatientAppointments
\* The rows Appointment.find({ patientId }) returns, in stored order, as
\* the response carries them (_doc: the row with its _id).
ListedRow(apps, i) ==
    [id |-> i, patientId |-> apps[i].patientId, doctorId |-> apps[i].doctorId,
     appointmentDate |-> apps[i].appointmentDate,
     appointmentTime |-> apps[i].appointmentTime, status |-> apps[i].status]

RowsOf(apps, ids) == [k \in 1..Len(ids) |-> ListedRow(apps, ids[k])]

RowIds(apps) == [i \in 1..Len(apps) |-> i]

GetPatientAppointmentsBooked(apps, p) ==
    RowsOf(apps, SelectSeq(RowIds(apps),
                           LAMBDA i : apps[i].patientId = p /\ apps[i].status = "booked"))

GetPatientAppointments(apps, p) ==
    RowsOf(apps, SelectSeq(RowIds(apps), LAMBDA i : apps[i].patientId = p))

\* GET /appointments/patient (restrictTo patient): the query is issued.
StartListPatient(r) ==
    \E p \in {x \in DOMAIN users : RestrictTo(x, {"patient"})} :
        /\ Enter(r, [Idle EXCEPT !.op = "listPatient", !.pc = "find", !.user = p])
        /\ UNCHANGED <<users, profiles, appointments, client>>

\* The query resolves; 200 with the rows.  (An answered listing keeps the
\* patient it was for.)
ListPatientFind(r) ==
    /\ req[r].op = "listPatient" /\ req[r].pc = "find"
    /\ req' = [req EXCEPT ![r] =
                 [Respond(@, 200, "") EXCEPT
                    !.user = req[r].user,
                    !.list = GetPatientAppointments(appointments, req[r].user)]]
    /\ UNCHANGED <<users, profiles, appointments, client>>

\* ----------------------------------------------- getDoctorAppointments
GetDoctorAppointments(apps, d) ==
    RowsOf(apps, SelectSeq(RowIds(apps), LAMBDA i : apps[i].doctorId = d))

\* GET /appointments/doctor (restrictTo doctor): the profile query is issued.
StartListDoctor(r) ==
    \E u \in {x \in DOMAIN users : RestrictTo(x, {"doctor"})} :
        /\ Enter(r, [Idle EXCEPT !.op = "listDoctor", !.pc = "findProfile",
                                 !.user = u])
        /\ UNCHANGED <<users, profiles, appointments, client>>

\* DoctorProfile.findOne resolves; the appointment query is issued.
ListDoctorFindProfile(r) ==
    /\ req[r].op = "listDoctor" /\ req[r].pc = "findProfile"
    /\ req' = [req EXCEPT ![r] =
                 IF ProfilesOfUser(req[r].user) = {}
                 THEN Respond(@, 404, "Doctor profile not found.")
                 ELSE [@ EXCEPT !.pc = "find",
                                !.doctorId = CHOOSE x \in ProfilesOfUser(req[r].user) :
                                                TRUE]]
    /\ UNCHANGED <<users, profiles, appointments, client>>

\* The appointment query resolves; 200 with the rows.
ListDoctorFind(r) ==
    /\ req[r].op = "listDoctor" /\ req[r].pc = "find"
    /\ req' = [req EXCEPT ![r] =
                 [Respond(@, 200, "") EXCEPT
                    !.list = GetDoctorAppointments(appointments, req[r].doctorId)]]
    /\ UNCHANGED <<users, profiles, appointments, client>>

\* ---------------------------------------------------------- getDoctors
\* DoctorProfile.find(): every profile, with its _id.
AllProfileIds == <<"d1", "d2", "f1", "f2", "f3">>

GetDoctorsList ==
    LET ids == SelectSeq(AllProfileIds, LAMBDA d : d \in DOMAIN profiles)
    IN  [k \in 1..Len(ids) |->
           [id |-> ids[k], userId |-> profiles[ids[k]].userId,
            availability |-> profiles[ids[k]].availability]]

\* GET /doctors (no middleware): the query is issued.
StartGetDoctors(r) ==
    /\ Enter(r, [Idle EXCEPT !.op = "getDoctors", !.pc = "find"])
    /\ UNCHANGED <<users, profiles, appointments, client>>

\* The query resolves; 200 with the profiles.
GetDoctorsFind(r) ==
    /\ req[r].op = "getDoctors" /\ req[r].pc = "find"
    /\ req' = [req EXCEPT ![r] = [Respond(@, 200, "") EXCEPT !.list = GetDoctorsList]]
    /\ UNCHANGED <<users, profiles, appointments, client>>

\* ----------------------------------------------------------- loginUser
Passwords == {"pw", "bad"}

\* POST /auth/login: User.findOne is issued.
StartLogin(r, emails) ==
    \E email \in emails, password \in Passwords :
        /\ Enter(r, [Idle EXCEPT !.op = "login", !.pc = "findOne",
                                 !.email = email, !.password = password])
        /\ UNCHANGED <<users, profiles, appointments, client>>

\* User.findOne resolves; bcrypt.compare; 200 with the account and a
\* token, or 400.
LoginFindOne(r) ==
    /\ req[r].op = "login" /\ req[r].pc = "findOne"
    /\ req' = [req EXCEPT ![r] =
                 IF \E u \in UserWithEmail(req[r].email) :
                       Compare(req[r].password, users[u].password)
                 THEN [Respond(@, 200, "token") EXCEPT
                         !.user = CHOOSE u \in UserWithEmail(req[r].email) : TRUE]
                 ELSE Respond(@, 400, "Invalid credentials.")]
    /\ UNCHANGED <<users, profiles, appointments, client>>

\* ----------------------------------------------------- storage failure
\* The handlers whose body is one try/catch, and what the catch answers.
HasTryCatch(op) == op \notin {"register", "login"}

ServerErrorMessage(op) ==
    CASE op = "getDoctors"  -> "Server error fetching doctors."
      [] op = "update"      -> "Server error updating availability."
      [] op = "book"        -> "Server error during booking."
      [] op = "listPatient" -> "Server error fetching patient appointments."
      [] op = "listDoctor"  -> "Server error fetching doctor appointments."
      [] op = "cancel"      -> "Server error during cancellation."
      [] OTHER              -> ""

\* The storage operation a handler awaits rejects: nothing is written; the
\* catch answers 500, and a handler without one is left by the rejection.
Fail(r) ==
    /\ InFlight(r)
    /\ IF HasTryCatch(req[r].op)
       THEN req' = [req EXCEPT ![r] = Respond(@, 500, ServerErrorMessage(req[r].op))]
       ELSE \E c \in EscapeOutcomes : req' = [req EXCEPT ![r] = Escape(@, c)]
    /\ UNCHANGED <<users, profiles, appointments, client>>

\* -------------------------------------------------------------- client
\* showToast(message, type): setToast, then setTimeout(..., 4000).  The
\* timer is never cleared; all timers have the same delay, so they fire
\* in the order they were set.  The toast remembers the call that put it
\* on display.
ShowToast(message, type) ==
    /\ calls < MaxCalls
    /\ calls' = calls + 1
    /\ toast' = [message |-> message, type |-> type, call |-> calls + 1]
    /\ timers' = Append(timers, calls + 1)

\* AuthForm.handleSubmit up to its await: setLoading(true) and the
\* clearing call showToast('', '').  The submit button is disabled while
\* loading, and the auth pages are not reachable with a token.  (A submit
\* starts only if its second showToast call fits under MaxCalls.)
HandleSubmit ==
    /\ ~loading /\ ~auth
    /\ calls + 1 < MaxCalls
    /\ ShowToast("", "")
    /\ loading' = TRUE
    /\ UNCHANGED <<auth, users, profiles, appointments, req>>

\* api.post resolved: setAuth, the welcome toast, navigation to the
\* dashboard (the form, and its loading flag, are gone).
SubmitSucceeds ==
    /\ loading
    /\ ShowToast("Welcome", "success")
    /\ loading' = FALSE
    /\ auth' = TRUE
    /\ UNCHANGED <<users, profiles, appointments, req>>

\* api.post rejected: the error toast and setLoading(false).
SubmitFails ==
    /\ loading
    /\ ShowToast("Authentication failed. Please check credentials.", "error")
    /\ loading' = FALSE
    /\ UNCHANGED <<auth, users, profiles, appointments, req>>

\* handleLogout: the token is dropped and the logout toast is shown.
HandleLogout ==
    /\ auth
    /\ ShowToast("You have been logged out successfully.", "info")
    /\ auth' = FALSE
    /\ UNCHANGED <<loading, users, profiles, appointments, req>>

\* PatientDashboard.handleBookAppointment (shown only with a token): the
\* toast of its outcome, a missing field, a booking or a rejection.
BookingToasts ==
    {<<"Please select a doctor, date, and time.", "error">>,
     <<"Appointment booked successfully! Confirmation sent.", "success">>,
     <<"Error: Booking failed. Slot might be taken.", "error">>}

HandleBookAppointment ==
    /\ auth
    /\ \E t \in BookingToasts : ShowToast(t[1], t[2])
    /\ UNCHANGED <<loading, auth, users, profiles, appointments, req>>

\* A pending timer runs: setToast({ message: '', type: '' }).
TimerFires ==
    /\ timers # <<>>
    /\ toast' = NoToast
    /\ timers' = Tail(timers)
    /\ UNCHANGED <<calls, loading, auth, users, profiles, appointments, req>>

\* The close button of the Toast, rendered only while a message is on
\* display: onClose.
CloseToast ==
    /\ toast.message # ""
    /\ toast' = NoToast
    /\ UNCHANGED <<timers, calls, loading, auth, users, profiles, appointments, req>>

\* --------------------------------------------------------------- system
Next ==
    \E r \in Reqs :
        \/ StartUpdate(r, {"u1"}, {"D1"}, DaySlotLists)
        \/ UpdateFindProfile(r)
        \/ UpdateSave(r)
        \/ StartBook(r, MaxAppts)
        \/ BookFindDoctor(r)
        \/ BookFindPatientDup(r)
        \/ BookFindSlot(r)
        \/ BookCreate(r)
        \/ StartCancel(r)
        \/ CancelFindById(r)
        \/ CancelSave(r)

Spec == Init /\ [][Next]_vars

\* updateAvailability alone, by both doctors, for both dates.
NextAvail ==
    \E r \in Reqs :
        \/ StartUpdate(r, DoctorUsers, Dates, DaySlotLists)
        \/ UpdateFindProfile(r)
        \/ UpdateSave(r)

SpecAvail == Init /\ [][NextAvail]_vars

\* Registration from the empty database.
InitReg ==
    /\ users = [u \in {} |-> NewUser(Missing, Missing, Missing)]
    /\ profiles = [d \in {} |-> [userId |-> Missing, availability |-> <<>>]]
    /\ appointments = <<>>
    /\ req = [r \in Reqs |-> Idle]
    /\ InitClient

NextReg ==
    \E r \in Reqs :
        \/ StartRegister(r, Emails)
        \/ RegisterFindOne(r)
        \/ RegisterCreate(r)
        \/ RegisterDeleteOne(r)
        \/ RegisterCreateProfile(r)

SpecReg == InitReg /\ [][NextReg]_vars

\* Sequential execution: one request at a time, each answered before the
\* next arrives (all on the first handler slot).  The ledger may grow one
\* row beyond MaxAppts, so that a patient holding a row can ask for a slot
\* another patient holds.
FirstReq == CHOOSE r \in Reqs : \A o \in Reqs : r <= o

NextSeq ==
    \E r \in {FirstReq} :
        \/ StartUpdate(r, {"u1"}, {"D1"}, DaySlotLists)
        \/ UpdateFindProfile(r)
        \/ UpdateSave(r)
        \/ StartBook(r, MaxAppts + 1)
        \/ BookFindDoctor(r)
        \/ BookFindPatientDup(r)
        \/ BookFindSlot(r)
        \/ BookCreate(r)
        \/ StartCancel(r)
        \/ CancelFindById(r)
        \/ CancelSave(r)
        \/ StartListPatient(r)
        \/ ListPatientFind(r)

SpecSeq == Init /\ [][NextSeq]_vars

\* Sequential execution of all seven operations, where the storage
\* operation a handler awaits may reject.
NextFail ==
    \E r \in {FirstReq} :
        \/ StartRegister(r, {"e1"})
        \/ RegisterFindOne(r)
        \/ RegisterCreate(r)
        \/ RegisterDeleteOne(r)
        \/ RegisterCreateProfile(r)
        \/ StartLogin(r, {"p1", "e1"})
        \/ LoginFindOne(r)
        \/ StartGetDoctors(r)
        \/ GetDoctorsFind(r)
        \/ StartUpdate(r, {"u1"}, {"D1"}, DaySlotLists)
        \/ UpdateFindProfile(r)
        \/ UpdateSave(r)
        \/ StartBook(r, MaxAppts)
        \/ BookFindDoctor(r)
        \/ BookFindPatientDup(r)
        \/ BookFindSlot(r)
        \/ BookCreate(r)
        \/ StartListPatient(r)
        \/ ListPatientFind(r)
        \/ StartListDoctor(r)
        \/ ListDoctorFindProfile(r)
        \/ ListDoctorFind(r)
        \/ StartCancel(r)
        \/ CancelFindById(r)
        \/ CancelSave(r)
        \/ Fail(r)

SpecFail == Init /\ [][NextFail]_vars

\* The browser client alone.
NextToast ==
    \/ HandleSubmit
    \/ SubmitSucceeds
    \/ SubmitFails
    \/ HandleLogout
    \/ HandleBookAppointment
    \/ TimerFires
    \/ CloseToast

SpecToast == Init /\ [][NextToast]_vars

\* ----------------------------------------------------------- properties
SameSlot(a, b) ==
    /\ a.doctorId = b.doctorId
    /\ a.appointmentDate = b.appointmentDate
    /\ a.appointmentTime = b.appointmentTime

SameTimeForPatient(a, b) ==
    /\ a.patientId = b.patientId
    /\ a.appointmentDate = b.appointmentDate
    /\ a.appointmentTime = b.appointmentTime

\* Request r answers in this step.
Answers(r) == InFlight(r) /\ req'[r].pc = "done"

\* C1: at most one Appointment with status booked for any
\* {doctorId, appointmentDate, appointmentTime}, in every reachable state.
SlotExclusivity ==
    \A i, j \in DOMAIN appointments :
        (i # j /\ appointments[i].status = "booked" /\ appointments[j].status = "booked")
            => ~SameSlot(appointments[i], appointments[j])

\* C2: of two bookAppointment calls by different patients for the same
\* {doctorId, date, time} that were in flight at the same time, at most one
\* answers 201.
ConcurrentBookingsOneWinner ==
    \A r1, r2 \in Reqs :
        ( /\ r1 # r2
          /\ req[r1].op = "book" /\ req[r1].code = 201
          /\ req[r2].op = "book" /\ req[r2].code = 201
          /\ r2 \in req[r1].conc
          /\ SameSlot(appointments[req[r1].apptId], appointments[req[r2].apptId]) )
            => appointments[req[r1].apptId].patientId
                 = appointments[req[r2].apptId].patientId

\* C3: at most one Appointment with status booked for any
\* {patientId, appointmentDate, appointmentTime}, in every reachable state.
NoSelfOverlap ==
    \A i, j \in DOMAIN appointments :
        (i # j /\ appointments[i].status = "booked" /\ appointments[j].status = "booked")
            => ~SameTimeForPatient(appointments[i], appointments[j])

\* C4: a row is created with status booked, the only status change of any
\* step is booked -> cancelled, and a cancelled row stays cancelled.
AppointmentLifecycle ==
    [][ /\ \A i \in DOMAIN appointments' :
              i \notin DOMAIN appointments => appointments'[i].status = "booked"
        /\ \A i \in DOMAIN appointments :
              /\ i \in DOMAIN appointments'
              /\ appointments'[i].status # appointments[i].status
                    => /\ appointments[i].status = "booked"
                       /\ appointments'[i].status = "cancelled"
              /\ appointments[i].status = "cancelled"
                    => appointments'[i].status = "cancelled" ]_vars

SomeAppointmentCancelled ==
    \E i \in DOMAIN appointments : appointments[i].status = "cancelled"

\* C5: no step removes an Appointment row (the ids only grow), and the
\* save of cancelAppointment keeps the number of rows and the patientId,
\* doctorId, date and time of every row.
RowsNeverRemoved ==
    [][ /\ \A i \in DOMAIN appointments : i \in DOMAIN appointments'
        /\ \A r \in Reqs :
              (req[r].op = "cancel" /\ req[r].pc = "save" /\ Answers(r))
                 => /\ Len(appointments') = Len(appointments)
                    /\ \A i \in DOMAIN appointments :
                          /\ appointments'[i].patientId = appointments[i].patientId
                          /\ appointments'[i].doctorId = appointments[i].doctorId
                          /\ appointments'[i].appointmentDate
                                = appointments[i].appointmentDate
                          /\ appointments'[i].appointmentTime
                                = appointments[i].appointmentTime ]_vars

CancelledRowKept ==
    \E r \in Reqs :
        /\ req[r].op = "cancel" /\ req[r].code = 200
        /\ req[r].apptId \in DOMAIN appointments
        /\ appointments[req[r].apptId].status = "cancelled"
        /\ Len(appointments) = MaxAppts

\* C6: when updateAvailability(d, D, T) answers 200, the slots stored for
\* d on date D are exactly T and the slot lists of d's other dates are as
\* before.
FullReplacement ==
    [][ \A r \in Reqs :
          (req[r].op = "update" /\ req[r].pc = "save" /\ Answers(r))
             => /\ GetAvailableSlots(profiles'[req[r].doctorId].availability,
                                     req[r].date) = req[r].slots
                /\ \A D \in Dates \ {req[r].date} :
                      GetAvailableSlots(profiles'[req[r].doctorId].availability, D)
                         = GetAvailableSlots(profiles[req[r].doctorId].availability, D)
      ]_vars

\* C7: a cancelled row does not block a booking: the patient test passes
\* when the patient has no booked row for the date and time, the slot test
\* passes when the doctor has no booked row for it, and the create that
\* follows answers 201 with a booked row.
CancellationFreesSlot ==
    [][ \A r \in Reqs :
          /\ (req[r].op = "book" /\ req[r].pc = "findPatientDup" /\ req'[r] # req[r]
              /\ \A i \in DOMAIN appointments :
                    ( /\ appointments[i].patientId = req[r].user
                      /\ appointments[i].appointmentDate = req[r].date
                      /\ appointments[i].appointmentTime = req[r].time )
                        => appointments[i].status = "cancelled")
                => req'[r].pc = "findSlot"
          /\ (req[r].op = "book" /\ req[r].pc = "findSlot" /\ req'[r] # req[r]
              /\ \A i \in DOMAIN appointments :
                    ( /\ appointments[i].doctorId = req[r].doctorId
                      /\ appointments[i].appointmentDate = req[r].date
                      /\ appointments[i].appointmentTime = req[r].time )
                        => appointments[i].status = "cancelled")
                => req'[r].pc = "create"
          /\ (req[r].op = "book" /\ req[r].pc = "create" /\ req'[r] # req[r])
                => /\ req'[r].code = 201
                   /\ Len(appointments') = Len(appointments) + 1
                   /\ appointments'[Len(appointments')] =
                         [patientId |-> req[r].user, doctorId |-> req[r].doctorId,
                          appointmentDate |-> req[r].date,
                          appointmentTime |-> req[r].time, status |-> "booked"]
      ]_vars

RebookedAfterCancel ==
    \E r \in Reqs :
        /\ req[r].op = "book" /\ req[r].code = 201
        /\ appointments[req[r].apptId].status = "booked"
        /\ \E i \in DOMAIN appointments :
              /\ i < req[r].apptId
              /\ appointments[i].status = "cancelled"
              /\ SameSlot(appointments[i], appointments[req[r].apptId])
              /\ appointments[i].patientId # appointments[req[r].apptId].patientId

\* C8: cancelAppointment on an existing appointment by a requester other
\* than its patientId answers 403, booked or cancelled alike, and writes
\* nothing.
CancelByOtherForbidden ==
    [][ \A r \in Reqs :
          ( /\ req[r].op = "cancel" /\ req[r].pc = "findById" /\ req'[r] # req[r]
            /\ req[r].apptId \in DOMAIN appointments
            /\ appointments[req[r].apptId].patientId # req[r].user )
              => /\ req'[r].pc = "done"
                 /\ req'[r].code = 403
                 /\ appointments' = appointments
      ]_vars

ForbiddenOnCancelledRow ==
    \E r \in Reqs :
        /\ req[r].op = "cancel" /\ req[r].code = 403
        /\ appointments[req[r].apptId].status = "cancelled"

\* C9: for every appointment at most one cancelAppointment call answers
\* 200.
AtMostOneCancelSucceeds ==
    \A r1, r2 \in Reqs :
        ( /\ req[r1].op = "cancel" /\ req[r1].code = 200
          /\ req[r2].op = "cancel" /\ req[r2].code = 200
          /\ req[r1].apptId = req[r2].apptId )
            => r1 = r2

\* C10: bookAppointment for an existing doctor answers 400 'The selected
\* slot is not available.' and creates no row whenever the entry of the
\* requested date (the first one, if any) does not list the requested time.
SlotNotOfferedRejected ==
    [][ \A r \in Reqs :
          ( /\ req[r].op = "book" /\ req[r].pc = "findDoctor" /\ req'[r] # req[r]
            /\ req[r].doctorId \in DOMAIN profiles
            /\ LET av == profiles[req[r].doctorId].availability
               IN  \A i \in DOMAIN av :
                      ( /\ av[i].date = req[r].date
                        /\ \A j \in DOMAIN av : j < i => av[j].date # req[r].date )
                          => \A k \in DOMAIN av[i].slots : av[i].slots[k] # req[r].time )
              => /\ req'[r].pc = "done"
                 /\ req'[r].code = 400
                 /\ req'[r].msg = "The selected slot is not available."
                 /\ appointments' = appointments
      ]_vars

NotOfferedAnswered ==
    \E r \in Reqs :
        /\ req[r].op = "book" /\ req[r].pc = "done"
        /\ req[r].msg = "The selected slot is not available."
        /\ appointments = <<>>

\* C13: a registration with role doctor and no specialization is never
\* answered 201: each answer the handler gives is a 400.  When it answers that the
\* specialization is required, no Account and no DoctorProfile of the
\* address is stored any more; when it answers that the user exists, it
\* has stored nothing.
DoctorWithoutSpecialization(rec) ==
    /\ rec.op = "register"
    /\ ToLowerCase(rec.role) = "doctor"
    /\ rec.specialization = Missing

NoOrphanAfterMissingSpecialization ==
    [][ \A r \in Reqs :
          /\ (DoctorWithoutSpecialization(req[r]) /\ Answers(r)
                /\ req'[r].msg # "unhandled rejection")
                => /\ req'[r].code = 400
                   /\ req'[r].msg = "Specialization is required for doctors."
                         => /\ \A u \in DOMAIN users' : users'[u].email # req[r].email
                            /\ \A d \in DOMAIN profiles' :
                                  profiles'[d].userId \in DOMAIN users'
                   /\ req'[r].msg = "User already exists."
                         => users' = users /\ profiles' = profiles
          /\ (DoctorWithoutSpecialization(req[r]) /\ InFlight(r) /\ req'[r] # req[r])
                => profiles' = profiles
      ]_vars

MissingSpecializationAnswered ==
    \E r \in Reqs :
        /\ req[r].op = "register" /\ req[r].code = 400
        /\ req[r].msg = "Specialization is required for doctors."
        /\ \A u \in DOMAIN users : users[u].email # req[r].email

\* C14: in every reachable state every Account with role doctor has a
\* DoctorProfile linked to it.
DoctorAccountsHaveProfile ==
    \A u \in DOMAIN users :
        users[u].role = "doctor" => \E d \in DOMAIN profiles : profiles[d].userId = u

\* C15: no two Accounts share an email, and a registration that finds its
\* address held by an Account answers 400 'User already exists.' and
\* stores nothing.
EmailUniqueness ==
    /\ [](\A u, v \in DOMAIN users : users[u].email = users[v].email => u = v)
    /\ [][ \A r \in Reqs :
             ( /\ req[r].op = "register" /\ req[r].pc = "findOne" /\ req'[r] # req[r]
               /\ \E u \in DOMAIN users : users[u].email = req[r].email )
                 => /\ req'[r].pc = "done"
                    /\ req'[r].code = 400
                    /\ req'[r].msg = "User already exists."
                    /\ users' = users
                    /\ profiles' = profiles
         ]_vars

ExistingEmailRejected ==
    \E r \in Reqs :
        /\ req[r].op = "register" /\ req[r].msg = "User already exists."
        /\ Cardinality({u \in DOMAIN users : users[u].email = req[r].email}) = 1


\* C16: availability is independent of booking state.  No step of a
\* bookAppointment or cancelAppointment request, answered with success
\* or not, changes any doctor profile; so the time of a created
\* appointment stays in the offered list, and a cancellation neither
\* removes nor adds a slot.
AvailabilityIndependentOfBooking ==
    [][\A r \in Reqs :
          (req'[r] # req[r] /\ req'[r].op \in {"book", "cancel"})
          => /\ profiles' = profiles
             /\ (req[r].op = "book" /\ req[r].pc = "create")
                => \A d \in DOMAIN profiles, date \in Dates :
                      GetAvailableSlots(profiles'[d].availability, date)
                        = GetAvailableSlots(profiles[d].availability, date)]_vars

\* A booking was answered 201 and its time is still offered.
BookedSlotStillOffered ==
    \E r \in Reqs :
        /\ req[r].op = "book" /\ req[r].code = 201
        /\ req[r].apptId \in DOMAIN appointments
        /\ LET a == appointments[req[r].apptId]
           IN  /\ a.status = "booked"
               /\ SlotOffered(profiles[a.doctorId].availability, a.appointmentDate, a.appointmentTime)

\* C17: updateAvailability of doctor account a writes only the
\* availability of the profile whose userId is a.  Every step of an
\* update request leaves every account, every appointment and every
\* other profile unchanged, and keeps the userId of the profile it writes.
UpdateWritesOwnProfileOnly ==
    [][\A r \in Reqs :
          (req'[r] # req[r] /\ req'[r].op = "update")
          => /\ users' = users
             /\ appointments' = appointments
             /\ DOMAIN profiles' = DOMAIN profiles
             /\ \A d \in DOMAIN profiles :
                   profiles'[d] # profiles[d]
                   => /\ req[r].op = "update"
                      /\ profiles[d].userId = req[r].user
                      /\ profiles'[d].userId = profiles[d].userId]_vars

\* An update was answered 200 and a booked appointment sits on a slot
\* the doctor's list no longer offers.
BookedOnDroppedSlot ==
    /\ \E r \in Reqs : req[r].op = "update" /\ req[r].code = 200
    /\ \E i \in DOMAIN appointments :
          /\ appointments[i].status = "booked"
          /\ ~SlotOffered(profiles[appointments[i].doctorId].availability,
                          appointments[i].appointmentDate,
                          appointments[i].appointmentTime)

\* C18: referential and role integrity of the ledger.  In every state
\* every appointment's patientId is an account with role patient and its
\* doctorId is a doctor profile.
LedgerIntegrity ==
    \A i \in DOMAIN appointments :
        /\ appointments[i].patientId \in DOMAIN users
        /\ users[appointments[i].patientId].role = "patient"
        /\ appointments[i].doctorId \in DOMAIN profiles

\* The ledger holds appointments of two patients with two doctors.
LedgerOfTwoDoctors ==
    \E i, j \in DOMAIN appointments :
        /\ appointments[i].patientId # appointments[j].patientId
        /\ appointments[i].doctorId # appointments[j].doctorId

\* C20: each doctor profile holds at most one availability entry per
\* date, whatever the interleaving of updateAvailability calls.
OneEntryPerDate ==
    \A d \in DOMAIN profiles :
        \A i, j \in DOMAIN profiles[d].availability :
            profiles[d].availability[i].date = profiles[d].availability[j].date
            => i = j

\* C11 as claimed: in a sequential execution a booking of an offered slot
\* that a different patient holds booked is answered 'This slot is already
\* taken by another patient.' and adds no row.
HeldByOther(rec) ==
    /\ rec.op = "book"
    /\ rec.doctorId \in DOMAIN profiles
    /\ SlotOffered(profiles[rec.doctorId].availability, rec.date, rec.time)
    /\ \E i \in DOMAIN appointments :
          /\ appointments[i].doctorId = rec.doctorId
          /\ appointments[i].appointmentDate = rec.date
          /\ appointments[i].appointmentTime = rec.time
          /\ appointments[i].status = "booked"
          /\ appointments[i].patientId # rec.user

EndsAsTaken(r) ==
    /\ appointments' = appointments
    /\ req'[r].pc \in {"findPatientDup", "findSlot", "done"}
    /\ req'[r].pc = "done"
          => /\ req'[r].code = 400
             /\ req'[r].msg = "This slot is already taken by another patient."

TakenSlotRejected ==
    [][\A r \in Reqs :
          (InFlight(r) /\ req'[r] # req[r] /\ HeldByOther(req[r]))
          => EndsAsTaken(r)]_vars

\* C11, amended: the same, for a patient who holds no booked appointment
\* of their own at that date and time (the patient test comes first and
\* answers 'You already have an appointment at this time.').
TakenSlotRejectedUnlessOwnClash ==
    [][\A r \in Reqs :
          ( /\ InFlight(r) /\ req'[r] # req[r] /\ HeldByOther(req[r])
            /\ ~PatientBooked(appointments, req[r].user, req[r].date, req[r].time) )
          => EndsAsTaken(r)]_vars

\* A booking was answered 'taken' while another patient holds the slot.
TakenAnswered ==
    \E r \in Reqs :
        /\ req[r].op = "book" /\ req[r].code = 400
        /\ req[r].msg = "This slot is already taken by another patient."
        /\ \E i \in DOMAIN appointments : appointments[i].status = "booked"

\* C12: round trip.  Right after a successful booking by p the listing of
\* p holds the new id with status booked; right after p cancels it the
\* listing holds the same id with status cancelled and is as long as
\* before; and the listing answered to p holds exactly p's rows of the
\* ledger, each with its status.
BookCancelListRoundTrip ==
    [][\A r \in Reqs :
          /\ (req[r].op = "book" /\ req[r].pc = "create" /\ req'[r] # req[r]
              /\ req'[r].code = 201)
                => \E k \in DOMAIN GetPatientAppointments(appointments', req[r].user) :
                      /\ GetPatientAppointments(appointments', req[r].user)[k].id
                           = req'[r].apptId
                      /\ GetPatientAppointments(appointments', req[r].user)[k].status
                           = "booked"
          /\ (req[r].op = "cancel" /\ req[r].pc = "save" /\ req'[r] # req[r]
              /\ req'[r].code = 200)
                => /\ Len(GetPatientAppointments(appointments', req[r].user))
                        = Len(GetPatientAppointments(appointments, req[r].user))
                   /\ \E k \in DOMAIN GetPatientAppointments(appointments', req[r].user) :
                         /\ GetPatientAppointments(appointments', req[r].user)[k].id
                              = req[r].apptId
                         /\ GetPatientAppointments(appointments', req[r].user)[k].status
                              = "cancelled"
          /\ (req[r].op = "listPatient" /\ req[r].pc = "find" /\ req'[r] # req[r]
              /\ req'[r].code = 200)
                => \A i \in DOMAIN appointments :
                      appointments[i].patientId = req[r].user
                      <=> \E k \in DOMAIN req'[r].list :
                             /\ req'[r].list[k].id = i
                             /\ req'[r].list[k].status = appointments[i].status
      ]_vars

\* A listing was answered that holds a cancelled appointment of the patient.
ListedCancelled ==
    \E r \in Reqs :
        /\ req[r].op = "listPatient" /\ req[r].code = 200
        /\ \E k \in DOMAIN req[r].list :
              /\ req[r].list[k].status = "cancelled"
              /\ req[r].list[k].patientId = req[r].user

\* C19: every storage failure is caught by the handler and answered 500:
\* no request is left by a rejection the handler did not catch.
EveryFailureAnswered ==
    \A r \in Reqs :
        req[r].pc = "done" => (req[r].code # 0 /\ req[r].msg # "unhandled rejection")

\* C21: at the moment bookAppointment inserts an Appointment, its time is
\* in the slot list the doctor's profile stores for that date, whatever
\* updateAvailability did since the booking's slot test.
InsertedTimeIsOffered ==
    [][\A r \in Reqs :
          (req[r].op = "book" /\ req[r].pc = "create" /\ req'[r] # req[r])
          => SlotOffered(profiles[req[r].doctorId].availability,
                         req[r].date, req[r].time)]_vars

\* C22: rejected requests change nothing.  A step of a bookAppointment,
\* cancelAppointment, updateAvailability or loginUser call that writes an
\* Account, a DoctorProfile or an Appointment is the step that answers
\* 200 or 201, so a call answered 4xx has written nothing; and a
\* registerUser call answered 400 for missing fields or an existing
\* address is answered before its first write and writes nothing.
Rejected(rec) == rec.pc = "done" /\ rec.code \in 400..499

RejectedChangesNothing ==
    [][\A r \in Reqs :
          req'[r] # req[r]
          => /\ ( /\ req'[r].op \in {"book", "cancel", "update", "login"}
                  /\ <<users, profiles, appointments>>'
                       # <<users, profiles, appointments>> )
                   => (req'[r].pc = "done" /\ req'[r].code \in {200, 201})
             /\ (req'[r].op \in {"book", "cancel", "update", "login"}
                 /\ Rejected(req'[r]))
                   => <<users, profiles, appointments>>'
                        = <<users, profiles, appointments>>
             /\ ( /\ req'[r].op = "register" /\ Rejected(req'[r])
                  /\ req'[r].msg \in {"Please include all required fields.",
                                      "User already exists."} )
                   => /\ <<users, profiles, appointments>>'
                           = <<users, profiles, appointments>>
                      /\ req[r].pc \in {"idle", "done", "findOne"}
      ]_vars

\* A cancellation of another patient's appointment was answered 403 and
\* the appointment is still booked.
ForbiddenCancelLeftRowBooked ==
    \E r \in Reqs :
        /\ req[r].op = "cancel" /\ Rejected(req[r]) /\ req[r].code = 403
        /\ req[r].apptId \in DOMAIN appointments
        /\ appointments[req[r].apptId].status = "booked"

\* C23: the timer of an earlier showToast call never hides a toast shown
\* by a later call: when a timer runs while a message is on display, it
\* is the timer of the call that put the message there.
TimerHidesOwnToastOnly ==
    [][(timers # <<>> /\ timers' = Tail(timers) /\ toast.message # "")
          => Head(timers) = toast.call]_vars

====
